---- MODULE Spec2Model ----
(***************************************************************************)
(* Coffee roasting log: the roast-session state machine (stopwatch,        *)
(* temperature log, active profile) and the Firestore-backed profile store *)
(* of the main application component, as a state machine; and the zustand *)
(* store over the flat roastLogs collection, used through its interface.   *)
(*                                                                         *)
(* Every UI handler runs to completion on the single JS thread, so each    *)
(* handler is one action.  An async store operation is one action too: the *)
(* awaited remote write (addDoc / updateDoc / deleteDoc) settles in the    *)
(* same step, accepted or rejected (input ok); its continuation touches no *)
(* state but the notice it raises, and the application sees the remote     *)
(* store only through later snapshots.                                     *)
(* Instants (JS Date) are integers; a Firestore Timestamp is [ts |-> n].   *)
(***************************************************************************)
EXTENDS Integers, Sequences, FiniteSets, TLC

\* ----------------------------------------------------------------- bounds
MaxTime    == 1   \* stopwatch ticks modelled
MaxNow     == 1   \* wall-clock instants modelled
MaxLog     == 2   \* temperature samples per session
MaxDocs    == 1   \* documents inserted in the remote store
MaxUuid    == 2   \* templates ever created (uuidv4 draws)
MaxFeeds   == 2   \* listeners the zustand store ever attaches
MaxLogs    == 2   \* documents inserted in the roastLogs collection

Users   == {"A", "B"}
NewNames  == {"Ethiopia"}            \* form data typed for a new template
EditNames == {"Ethiopia"}            \* form data typed in an edit
MissingId == << "none", 0 >>         \* an id the remote store never issued
Inputs  == {"", "abc", "180"}        \* text of the temperature input box

Null      == [null |-> TRUE]         \* JS null / undefined object
Undefined == -1                      \* an absent instant (endTime?)
NoUser    == "none"

VARIABLES
  user,             \* useState<User|null>           (CoffeeRoastingApp)
  profiles,         \* useState<RoastProfile[]>      (useRoastStore)
  unsubscribe,      \* closure variable of the running subscription effect
  listeners,        \* uids whose Firestore listener is live
  lastSnapshot,     \* history: the documents of the last snapshot delivered
  remote,           \* users/<uid>/roastProfiles, in insertion order
  nextDocId,        \* Firestore auto-id source
  time,             \* useStopwatch: time
  isRunning,        \* useStopwatch: isRunning
  liveIntervals,    \* number of live setInterval timers
  currentProfile,   \* useState<RoastProfile|null>
  temperatureLog,   \* useState<TemperaturePoint[]>
  showProfileForm,  \* useState(false)
  editingProfile,   \* useState<RoastProfile|null>
  uuidCount,        \* uuidv4 draws so far
  now,              \* wall clock (new Date())
  sessionTicks,     \* history: ticks since the current profile was chosen
  sessionStarted,   \* history: the current profile has been started
  sampleSessions,   \* history: per sample of the log, the profile that was
                    \* current when it was appended, and whether started
  store,            \* the zustand store: roastLogs, user, currentUnsubscribe
  feeds,            \* the listeners the zustand store attached, in order
  roastLogsCollection, \* the remote collection roastLogs, in insertion order
  nextLogId,        \* Firestore auto-id source of roastLogs
  lastOp,           \* the handler that ran in the last step, with its inputs
  out               \* what the last step did: calls issued and notices shown

vars == << user, profiles, unsubscribe, listeners, lastSnapshot, remote,
           nextDocId, time, isRunning, liveIntervals, currentProfile,
           temperatureLog, showProfileForm, editingProfile,
           uuidCount, now, sessionTicks, sessionStarted, sampleSessions,
           store, feeds,
           roastLogsCollection, nextLogId, lastOp, out >>

storeVars   == << profiles, unsubscribe, listeners, lastSnapshot >>
remoteVars  == << remote, nextDocId >>
watchVars   == << time, isRunning, liveIntervals >>
sessionVars == << currentProfile, temperatureLog >>
formVars    == << showProfileForm, editingProfile, uuidCount >>
ghostVars   == << sessionTicks, sessionStarted, sampleSessions >>
zustandVars == << store, feeds, roastLogsCollection, nextLogId >>
appVars     == << user, storeVars, remoteVars, watchVars, sessionVars,
                  formVars, now, ghostVars >>

\* ---------------------------------------------------------------- helpers
Count(s, ev) == Cardinality({i \in DOMAIN s : s[i].ev = ev})

Calls(s, ev) == {s[i] : i \in {j \in DOMAIN s : s[j].ev = ev}}

Merge(base, upd) ==
  [f \in DOMAIN base \cup DOMAIN upd |->
     IF f \in DOMAIN upd THEN upd[f] ELSE base[f]]

MapSeq(s, Op(_)) == [i \in DOMAIN s |-> Op(s[i])]

\* A document id is << uid, n >>: the n-th auto-id Firestore generated in
\* users/<uid>/roastProfiles.  A template's uuidv4 id is << "uuid", n >>.

\* Firestore SDK: a Date written to a document is stored as a Timestamp.
ToTimestamp(n) == [ts |-> n]
IsTimestamp(v) == DOMAIN v = {"ts"}

toDate(v) == v.ts

\* convertFirestoreTimestampToDate: Timestamps back to Dates, field by field.
convertFirestoreTimestampToDate(data) ==
  LET convertedLog ==
        MapSeq(data.temperatureLog,
               LAMBDA point :
                 [point EXCEPT !.timestamp =
                    IF IsTimestamp(point.timestamp)
                    THEN toDate(point.timestamp) ELSE point.timestamp])
  IN [data EXCEPT
        !.startTime = IF IsTimestamp(data.startTime)
                      THEN toDate(data.startTime) ELSE data.startTime,
        !.endTime   = IF IsTimestamp(data.endTime)
                      THEN toDate(data.endTime) ELSE data.endTime,
        !.temperatureLog = convertedLog]

\* convertDatesToTimestamps: every instant is copied into a fresh Date
\* (new Date(d) denotes the same instant); a falsy endTime becomes undefined.
convertDatesToTimestamps(profile) ==
  LET newTemperatureLog ==
        MapSeq(profile.temperatureLog,
               LAMBDA point : [point EXCEPT !.timestamp = point.timestamp])
  IN [profile EXCEPT
        !.startTime = profile.startTime,
        !.endTime   = IF profile.endTime # Undefined
                      THEN profile.endTime ELSE Undefined,
        !.temperatureLog = newTemperatureLog]

\* What Firestore stores for a written document: Dates become Timestamps.
FirestoreWrite(data) ==
  [data EXCEPT
     !.startTime = ToTimestamp(data.startTime),
     !.endTime   = IF data.endTime = Undefined
                   THEN ToTimestamp(Undefined) ELSE ToTimestamp(data.endTime),
     !.temperatureLog =
        MapSeq(data.temperatureLog,
               LAMBDA point :
                 [point EXCEPT !.timestamp = ToTimestamp(point.timestamp)])]

\* orderBy('startTime', 'desc'); ties follow the document id, descending.
Before(a, b) ==
  \/ a.data.startTime.ts > b.data.startTime.ts
  \/ /\ a.data.startTime.ts = b.data.startTime.ts
     /\ a.docId[2] > b.docId[2]

RECURSIVE InsertSorted(_, _)
InsertSorted(d, s) ==
  IF s = << >> THEN << d >>
  ELSE IF Before(d, Head(s)) THEN << d >> \o s
  ELSE << Head(s) >> \o InsertSorted(d, Tail(s))

RECURSIVE OrderByStartTimeDesc(_)
OrderByStartTimeDesc(s) ==
  IF s = << >> THEN << >>
  ELSE InsertSorted(Head(s), OrderByStartTimeDesc(Tail(s)))

\* The query snapshot of users/<uid>/roastProfiles.
QuerySnapshot(uid) == OrderByStartTimeDesc(remote[uid])

\* A callback that appends the received records to the held ones.
FetchedProfilesMerged(snapshot) ==
  profiles \o
  MapSeq(snapshot,
         LAMBDA d : convertFirestoreTimestampToDate([d.data EXCEPT !.id = d.docId]))

\* The onSnapshot callback's fetchedProfiles: {...doc.data(), id: doc.id}.
FetchedProfiles(snapshot) ==
  MapSeq(snapshot,
         LAMBDA d : convertFirestoreTimestampToDate([d.data EXCEPT !.id = d.docId]))

IdsOf(s) == {s[i].id : i \in DOMAIN s}
DocIdsOf(uid) == {remote[uid][i].docId : i \in DOMAIN remote[uid]}

\* ------------------------------------------------------------------- Init
\* The zustand store as created: no logs, no user, no listener (0 stands for
\* the null currentUnsubscribe; a listener is named by its position in feeds).
ZustandInit ==
  /\ store = [roastLogs |-> << >>, user |-> NoUser, currentUnsubscribe |-> 0]
  /\ feeds = << >>
  /\ roastLogsCollection = << >>
  /\ nextLogId = 1

Init ==
  /\ user = NoUser
  /\ profiles = << >>
  /\ unsubscribe = "undef"
  /\ listeners = {}
  /\ lastSnapshot = << >>
  /\ remote = [u \in Users |-> << >>]
  /\ nextDocId = 1
  /\ time = 0
  /\ isRunning = FALSE
  /\ liveIntervals = 0
  /\ currentProfile = Null
  /\ temperatureLog = << >>
  /\ showProfileForm = FALSE
  /\ editingProfile = Null
  /\ uuidCount = 0
  /\ now = 0
  /\ sessionTicks = 0
  /\ sessionStarted = FALSE
  /\ sampleSessions = << >>
  /\ ZustandInit
  /\ lastOp = [op |-> "init"]
  /\ out = << >>

\* ------------------------------------------------------ the remote store
RemoteCalls == {"addDoc", "updateDoc", "deleteDoc"}

Alert(msg) == [ev |-> "alert", msg |-> msg]

\* The effect of a write the remote store accepts.
Applied(op) ==
  IF op.kind = "addDoc"
  THEN [remote EXCEPT ![op.uid] =
          Append(@, [docId |-> << op.uid, nextDocId >>,
                     data |-> FirestoreWrite(op.data)])]
  ELSE IF op.kind = "updateDoc"
  THEN [remote EXCEPT ![op.uid] =
          [i \in DOMAIN @ |->
             IF @[i].docId = op.id
             THEN [docId |-> @[i].docId, data |-> Merge(@[i].data, op.fields)]
             ELSE @[i]]]
  ELSE [remote EXCEPT ![op.uid] =
          SelectSeq(@, LAMBDA d : d.docId # op.id)]

\* updateDoc needs the document to exist; addDoc and deleteDoc do not.
Acceptable(op) == op.kind = "updateDoc" => op.id \in DocIdsOf(op.uid)

\* The awaited write settles: accepted (ok) or rejected.
Write(op, ok) ==
  /\ ok => Acceptable(op)
  /\ remote' = IF ok THEN Applied(op) ELSE remote
  /\ nextDocId' = IF ok /\ op.kind = "addDoc" THEN nextDocId + 1 ELSE nextDocId

\* Catch blocks that swallow the error.
FailureNoticesSwallowed(op) == << >>

\* The catch blocks: one notice per failed write, and nothing else.
FailureNotices(op) ==
  << Alert(IF op.src = "addProfile" THEN "save-failed"
           ELSE IF op.src = "updateProfile" THEN "update-failed"
           ELSE IF op.src = "deleteProfile" THEN "delete-failed"
           ELSE "favorite-failed") >>

\* handleToggleFavorite reports success too; the store operations do not.
SuccessNotices(op) ==
  IF op.src = "handleToggleFavorite"
  THEN << Alert(IF op.fields.isFavorite THEN "favorite-added"
                ELSE "favorite-removed") >>
  ELSE << >>

\* What a step that issues the write op records: the call, how it settled,
\* and the notice of its continuation.
Issued(op, ok) ==
  << [ev |-> op.kind, op |-> op], [ev |-> "settled", ok |-> ok] >> \o
  (IF ok THEN SuccessNotices(op) ELSE FailureNotices(op))

\* ------------------------------------------------ useRoastStore (the hook)
\* An addProfile that splices the new record into the collection itself.
addProfileOptimistic(profile, ok) ==
  /\ profiles' = IF user # NoUser /\ ok THEN << profile >> \o profiles
                 ELSE profiles
  /\ IF user = NoUser
     THEN /\ ok
          /\ out' = << [ev |-> "addProfile", profile |-> profile],
                       Alert("not-signed-in:save") >>
          /\ UNCHANGED remoteVars
     ELSE LET op == [kind |-> "addDoc", uid |-> user,
                     data |-> convertDatesToTimestamps(profile),
                     src |-> "addProfile"]
          IN /\ nextDocId <= MaxDocs
             /\ Write(op, ok)
             /\ out' = << [ev |-> "addProfile", profile |-> profile] >> \o
                       Issued(op, ok)

\* addProfile(profile).  No setProfiles call: the collection is left to the
\* subscription.
addProfile(profile, ok) ==
  /\ profiles' = profiles
  /\ IF user = NoUser
     THEN /\ ok
          /\ out' = << [ev |-> "addProfile", profile |-> profile],
                       Alert("not-signed-in:save") >>
          /\ UNCHANGED remoteVars
     ELSE LET op == [kind |-> "addDoc", uid |-> user,
                     data |-> convertDatesToTimestamps(profile),
                     src |-> "addProfile"]
          IN /\ nextDocId <= MaxDocs
             /\ Write(op, ok)
             /\ out' = << [ev |-> "addProfile", profile |-> profile] >> \o
                       Issued(op, ok)

\* updatesToSave: instants are copied, other values pass through.
updatesToSave(updates) == [f \in DOMAIN updates |-> updates[f]]

\* An updateProfile that returns without a notice when nobody is signed in.
updateProfileSilent(id, updates, ok) ==
  /\ profiles' = profiles
  /\ IF user = NoUser
     THEN /\ ok
          /\ out' = << [ev |-> "updateProfile", id |-> id] >>
          /\ UNCHANGED remoteVars
     ELSE LET op == [kind |-> "updateDoc", uid |-> user, id |-> id,
                     fields |-> updatesToSave(updates),
                     src |-> "updateProfile"]
          IN /\ Write(op, ok)
             /\ out' = << [ev |-> "updateProfile", id |-> id] >> \o
                       Issued(op, ok)

updateProfile(id, updates, ok) ==
  /\ profiles' = profiles
  /\ IF user = NoUser
     THEN /\ ok
          /\ out' = << [ev |-> "updateProfile", id |-> id],
                       Alert("not-signed-in:update") >>
          /\ UNCHANGED remoteVars
     ELSE LET op == [kind |-> "updateDoc", uid |-> user, id |-> id,
                     fields |-> updatesToSave(updates),
                     src |-> "updateProfile"]
          IN /\ Write(op, ok)
             /\ out' = << [ev |-> "updateProfile", id |-> id] >> \o
                       Issued(op, ok)

\* deleteProfile(id); confirmed is the answer to window.confirm.
deleteProfile(id, confirmed, ok) ==
  /\ profiles' = profiles
  /\ IF user = NoUser
     THEN /\ ok /\ confirmed
          /\ out' = << [ev |-> "deleteProfile", id |-> id],
                       Alert("not-signed-in:delete") >>
          /\ UNCHANGED remoteVars
     ELSE IF confirmed
     THEN LET op == [kind |-> "deleteDoc", uid |-> user, id |-> id,
                     src |-> "deleteProfile"]
          IN /\ Write(op, ok)
             /\ out' = << [ev |-> "deleteProfile", id |-> id],
                          [ev |-> "confirm", answer |-> TRUE] >> \o
                       Issued(op, ok)
     ELSE /\ ok
          /\ out' = << [ev |-> "deleteProfile", id |-> id],
                       [ev |-> "confirm", answer |-> FALSE] >>
          /\ UNCHANGED remoteVars
  /\ lastOp' = [op |-> "delete", ui |-> id \in IdsOf(profiles)]
  /\ UNCHANGED << user, unsubscribe, listeners, lastSnapshot, watchVars,
                  sessionVars, formVars, now, ghostVars >>
  /\ UNCHANGED zustandVars

\* The subscription effect of useRoastStore, run when `user` changes to u:
\* the previous effect's cleanup, then the new effect body.  ok = FALSE is
\* onSnapshot throwing inside the try block.
EffectCleanupOut ==
  IF unsubscribe # "undef"
  THEN << [ev |-> "unsubscribe", uid |-> unsubscribe] >> ELSE << >>

\* A cleanup that leaves the previous listener attached.
EffectCleanupKeepsListener == listeners

EffectCleanupListeners ==
  IF unsubscribe # "undef" THEN listeners \ {unsubscribe} ELSE listeners

\* An effect body that leaves the collection as it is on sign-out.
EffectProfilesKept(u) == profiles

\* The collection after the effect body: cleared when the user is gone.
EffectProfiles(u) == IF u = NoUser THEN << >> ELSE profiles

SubscriptionEffect(u, ok) ==
  /\ unsubscribe' = IF u # NoUser /\ ok THEN u ELSE "undef"
  /\ listeners' = IF u # NoUser /\ ok
                  THEN EffectCleanupListeners \cup {u}
                  ELSE EffectCleanupListeners
  /\ profiles' = EffectProfiles(u)
  /\ out' = EffectCleanupOut \o
            (IF u # NoUser
             THEN << [ev |-> "subscribe", uid |-> u, ok |-> ok] >>
             ELSE << >>)

\* onAuthStateChanged callback: setUser(currentUser), then the effect.
AuthStateChanged(u, ok) ==
  /\ u # user
  /\ u = NoUser => ok
  /\ user' = u
  /\ SubscriptionEffect(u, ok)
  /\ lastOp' = [op |-> "authStateChanged", from |-> user, to |-> u]
  /\ UNCHANGED << lastSnapshot, remoteVars, watchVars, sessionVars,
                  formVars, now, ghostVars >>
  /\ UNCHANGED zustandVars

\* A listener that delivers the initial load only.
SnapshotInitialLoadOnly(uid) ==
  /\ uid \in listeners
  /\ profiles = << >>
  /\ profiles' = FetchedProfiles(QuerySnapshot(uid))
  /\ lastSnapshot' = QuerySnapshot(uid)
  /\ lastOp' = [op |-> "snapshot", uid |-> uid]
  /\ out' = << >>
  /\ UNCHANGED << user, unsubscribe, listeners, remoteVars, watchVars,
                  sessionVars, formVars, now, ghostVars >>
  /\ UNCHANGED zustandVars

\* The onSnapshot success callback of the live listener of uid.
Snapshot(uid) ==
  /\ uid \in listeners
  /\ profiles' = FetchedProfiles(QuerySnapshot(uid))
  /\ lastSnapshot' = QuerySnapshot(uid)
  /\ lastOp' = [op |-> "snapshot", uid |-> uid]
  /\ out' = << >>
  /\ UNCHANGED << user, unsubscribe, listeners, remoteVars, watchVars,
                  sessionVars, formVars, now, ghostVars >>
  /\ UNCHANGED zustandVars

\* The onSnapshot error callback: Firestore ends the listener after it.
SnapshotError(uid) ==
  /\ uid \in listeners
  /\ listeners' = listeners \ {uid}
  /\ lastOp' = [op |-> "snapshotError", uid |-> uid]
  /\ out' = << Alert("load-failed") >>
  /\ UNCHANGED << user, profiles, unsubscribe, lastSnapshot, remoteVars,
                  watchVars, sessionVars, formVars, now, ghostVars >>
  /\ UNCHANGED zustandVars

\* ------------------------------------------------------------ useStopwatch
\* The interval effect, run when isRunning changes to r: the cleanup clears
\* the timer held in intervalRef, then the body sets a new one when running.
\* An effect that sets a timer on every start and never clears one.
IntervalEffectWithoutCleanup(r) ==
  IF r THEN liveIntervals + 1 ELSE liveIntervals

IntervalEffect(r) ==
  IF r = isRunning THEN liveIntervals
  ELSE LET afterCleanup == IF liveIntervals > 0 THEN liveIntervals - 1 ELSE 0
       IN IF r THEN afterCleanup + 1 ELSE afterCleanup

start ==
  /\ isRunning' = TRUE
  /\ liveIntervals' = IntervalEffect(TRUE)

\* A pause that flips the running flag.
pauseToggles ==
  /\ isRunning' = ~isRunning
  /\ liveIntervals' = IntervalEffect(~isRunning)

pause ==
  /\ isRunning' = FALSE
  /\ liveIntervals' = IntervalEffect(FALSE)

\* A reset that puts the elapsed value at 0 and leaves the stopwatch running.
resetTimeOnly ==
  /\ time' = 0
  /\ isRunning' = isRunning
  /\ liveIntervals' = liveIntervals

reset ==
  /\ time' = 0
  /\ isRunning' = FALSE
  /\ liveIntervals' = IntervalEffect(FALSE)

\* The setInterval callback: setTime(prev => prev + 1).
TimerTick ==
  /\ liveIntervals > 0
  /\ time < MaxTime
  /\ time' = time + 1
  /\ sessionTicks' = sessionTicks + 1
  /\ sessionStarted' = sessionStarted
  /\ sampleSessions' = sampleSessions
  /\ lastOp' = [op |-> "tick"]
  /\ out' = << >>
  /\ UNCHANGED << user, storeVars, remoteVars, isRunning, liveIntervals,
                  sessionVars, formVars, now >>
  /\ UNCHANGED zustandVars

\* The wall clock read by new Date().
ClockAdvance ==
  /\ now < MaxNow
  /\ now' = now + 1
  /\ lastOp' = [op |-> "clock"]
  /\ out' = << >>
  /\ UNCHANGED << user, storeVars, remoteVars, watchVars, sessionVars,
                  formVars, ghostVars >>
  /\ UNCHANGED zustandVars

\* ------------------------------------------------------- CoffeeRoastingApp
\* Which timer controls the roast tab renders, and whether they are enabled.
StartButtonEnabled == ~isRunning /\ currentProfile # Null
RunningButtonsRendered == isRunning

\* A start handler that does not look at the running flag.
StartPermittedWhileRunning == currentProfile # Null

StartPermitted == ~isRunning /\ currentProfile # Null

handleStartRoast ==
  /\ IF StartPermitted
     THEN /\ start
          /\ temperatureLog' = << >>
          /\ currentProfile' = [currentProfile EXCEPT !.startTime = now]
          /\ time' = time
          /\ sessionStarted' = TRUE
          /\ sampleSessions' = << >>
     ELSE UNCHANGED << watchVars, sessionVars, sessionStarted, sampleSessions >>
  /\ lastOp' = [op |-> "start", ui |-> StartButtonEnabled]
  /\ out' = << >>
  /\ UNCHANGED << user, storeVars, remoteVars, formVars, now, sessionTicks >>
  /\ UNCHANGED zustandVars

handlePauseRoast ==
  /\ pause
  /\ lastOp' = [op |-> "pause", ui |-> RunningButtonsRendered]
  /\ out' = << >>
  /\ UNCHANGED << user, storeVars, remoteVars, time, sessionVars, formVars,
                  now, ghostVars >>
  /\ UNCHANGED zustandVars

\* A stop handler that does not look at the temperature log.
StopPermittedWithoutSamples == currentProfile # Null

StopPermitted == currentProfile # Null /\ Len(temperatureLog) > 0

\* A finished profile built from the stopwatch after reset().
FinishedProfileAfterReset ==
  [currentProfile EXCEPT !.endTime = now,
                         !.duration = 0,
                         !.temperatureLog = temperatureLog]

FinishedProfile ==
  [currentProfile EXCEPT !.endTime = now,
                         !.duration = time,
                         !.temperatureLog = temperatureLog]

\* A stop handler that keeps the session it has handed to the store.
handleStopRoastKeepsSession(ok) ==
  /\ IF StopPermitted
     THEN /\ addProfile(FinishedProfile, ok)
          /\ reset
          /\ UNCHANGED << sessionVars, ghostVars >>
     ELSE /\ ok
          /\ out' = << >>
          /\ UNCHANGED << profiles, remoteVars, watchVars, sessionVars,
                          ghostVars >>
  /\ lastOp' = [op |-> "stop", ui |-> RunningButtonsRendered]
  /\ UNCHANGED << user, unsubscribe, listeners, lastSnapshot, formVars, now >>
  /\ UNCHANGED zustandVars

\* A stop handler that leaves the temperature log as it is.
handleStopRoastKeepsLog(ok) ==
  /\ IF StopPermitted
     THEN /\ addProfile(FinishedProfile, ok)
          /\ reset
          /\ temperatureLog' = temperatureLog
          /\ currentProfile' = Null
          /\ sessionTicks' = 0
          /\ sessionStarted' = FALSE
          /\ sampleSessions' = sampleSessions
     ELSE /\ ok
          /\ out' = << >>
          /\ UNCHANGED << profiles, remoteVars, watchVars, sessionVars,
                          ghostVars >>
  /\ lastOp' = [op |-> "stop", ui |-> RunningButtonsRendered]
  /\ UNCHANGED << user, unsubscribe, listeners, lastSnapshot, formVars, now >>
  /\ UNCHANGED zustandVars

handleStopRoast(ok) ==
  /\ IF StopPermitted
     THEN /\ addProfile(FinishedProfile, ok)
          /\ reset
          /\ temperatureLog' = << >>
          /\ currentProfile' = Null
          /\ sessionTicks' = 0
          /\ sessionStarted' = FALSE
          /\ sampleSessions' = << >>
     ELSE /\ ok
          /\ out' = << >>
          /\ UNCHANGED << profiles, remoteVars, watchVars, sessionVars,
                          ghostVars >>
  /\ lastOp' = [op |-> "stop", ui |-> RunningButtonsRendered]
  /\ UNCHANGED << user, unsubscribe, listeners, lastSnapshot, formVars, now >>
  /\ UNCHANGED zustandVars

\* TemperatureLogger.handleAdd with the text of the input box, which calls
\* handleTemperatureAdd for a numeric text.
\* Number(text): "180" is 180; "1e400", a valid floating-point number string
\* above the double range, is Infinity; Number("abc") is NaN.
Infinity == 1000000
OverflowInputs == {"1e400"}
NumericInputs == {"180"} \cup OverflowInputs
NumberOf(text) ==
  IF text = "180" THEN 180 ELSE IF text \in OverflowInputs THEN Infinity ELSE 0
isNaN(text) == text \notin NumericInputs

\* The session a sample is appended under: the current profile, if any, and
\* whether it has been started.
NoSession == << "none", 0 >>
ActiveSession ==
  [profile |-> IF currentProfile = Null THEN NoSession ELSE currentProfile.id,
   started |-> sessionStarted]

handleAdd(temperature) ==
  /\ IF temperature # "" /\ ~isNaN(temperature)
     THEN /\ Len(temperatureLog) < MaxLog
          /\ temperatureLog' =
               Append(temperatureLog, [time |-> time,
                                       temperature |-> NumberOf(temperature),
                                       timestamp |-> now])
          /\ sampleSessions' = Append(sampleSessions, ActiveSession)
     ELSE UNCHANGED << temperatureLog, sampleSessions >>
  /\ lastOp' = [op |-> "add", input |-> temperature]
  /\ out' = << >>
  /\ UNCHANGED << user, storeVars, remoteVars, watchVars, currentProfile,
                  formVars, now, sessionTicks, sessionStarted >>
  /\ UNCHANGED zustandVars

\* "new profile" buttons of the roast and profile tabs.
OpenNewProfileForm ==
  /\ showProfileForm' = TRUE
  /\ editingProfile' = Null
  /\ lastOp' = [op |-> "openForm"]
  /\ out' = << >>
  /\ UNCHANGED << user, storeVars, remoteVars, watchVars, sessionVars,
                  uuidCount, now, ghostVars >>
  /\ UNCHANGED zustandVars

\* The form's onCancel.
CancelProfileForm ==
  /\ showProfileForm
  /\ showProfileForm' = FALSE
  /\ editingProfile' = Null
  /\ lastOp' = [op |-> "cancelForm"]
  /\ out' = << >>
  /\ UNCHANGED << user, storeVars, remoteVars, watchVars, sessionVars,
                  uuidCount, now, ghostVars >>
  /\ UNCHANGED zustandVars

\* The profiles an edit button exists for: the history rows and, on the
\* roast tab, the current profile.
Editable ==
  {profiles[i] : i \in DOMAIN profiles} \cup
  (IF currentProfile # Null THEN {currentProfile} ELSE {})

handleEditProfile(profile) ==
  /\ profile \in Editable
  /\ editingProfile' = profile
  /\ showProfileForm' = TRUE
  /\ lastOp' = [op |-> "edit"]
  /\ out' = << >>
  /\ UNCHANGED << user, storeVars, remoteVars, watchVars, sessionVars,
                  uuidCount, now, ghostVars >>
  /\ UNCHANGED zustandVars

NewProfile(profileData) ==
  [id |-> << "uuid", uuidCount + 1 >>,
   name |-> profileData,
   startTime |-> now,
   endTime |-> Undefined,
   duration |-> 0,
   temperatureLog |-> << >>,
   flavorNotes |-> "",
   isFavorite |-> FALSE]

\* RoastProfileForm.handleSubmit: onSave(formData, !!currentProfile), where
\* the form's currentProfile prop is editingProfile || currentProfile.
handleSaveProfile(profileData, ok) ==
  LET isEditing == editingProfile # Null \/ currentProfile # Null
  IN /\ showProfileForm
     /\ IF isEditing /\ editingProfile # Null
        THEN /\ updateProfile(editingProfile.id, [name |-> profileData], ok)
             /\ editingProfile' = Null
             /\ UNCHANGED << currentProfile, uuidCount, ghostVars >>
        ELSE /\ ok
             /\ uuidCount < MaxUuid
             /\ uuidCount' = uuidCount + 1
             /\ currentProfile' = NewProfile(profileData)
             /\ sessionTicks' = 0
             /\ sessionStarted' = FALSE
             /\ sampleSessions' = sampleSessions
             /\ out' = << >>
             /\ UNCHANGED << profiles, remoteVars, editingProfile >>
     /\ showProfileForm' = FALSE
     /\ lastOp' = [op |-> "saveProfile", isEditing |-> isEditing]
     /\ UNCHANGED << user, unsubscribe, listeners, lastSnapshot, watchVars,
                     temperatureLog, now >>
     /\ UNCHANGED zustandVars

FlavorTexts == {""}

handleSaveFlavorNotes(profileId, flavorNotes, ok) ==
  /\ updateProfile(profileId, [flavorNotes |-> flavorNotes], ok)
  /\ lastOp' = [op |-> "saveFlavorNotes", ui |-> profileId \in IdsOf(profiles)]
  /\ UNCHANGED << user, unsubscribe, listeners, lastSnapshot, watchVars,
                  sessionVars, formVars, now, ghostVars >>
  /\ UNCHANGED zustandVars

\* A toggle that writes back the value it was given.
handleToggleFavoriteKeepsValue(profileId, currentFavoriteStatus, ok) ==
  /\ profiles' = profiles
  /\ IF user = NoUser
     THEN /\ ok
          /\ out' = << [ev |-> "toggleFavorite", id |-> profileId,
                        status |-> currentFavoriteStatus],
                       Alert("not-signed-in:favorite") >>
          /\ UNCHANGED remoteVars
     ELSE LET op == [kind |-> "updateDoc", uid |-> user, id |-> profileId,
                     fields |-> [isFavorite |-> currentFavoriteStatus],
                     src |-> "handleToggleFavorite"]
          IN /\ Write(op, ok)
             /\ out' = << [ev |-> "toggleFavorite", id |-> profileId,
                        status |-> currentFavoriteStatus] >> \o
                       Issued(op, ok)
  /\ lastOp' = [op |-> "toggleFavorite",
                ui |-> \E i \in DOMAIN profiles :
                         /\ profiles[i].id = profileId
                         /\ profiles[i].isFavorite = currentFavoriteStatus]
  /\ UNCHANGED << user, unsubscribe, listeners, lastSnapshot, watchVars,
                  sessionVars, formVars, now, ghostVars >>
  /\ UNCHANGED zustandVars

handleToggleFavorite(profileId, currentFavoriteStatus, ok) ==
  /\ profiles' = profiles
  /\ IF user = NoUser
     THEN /\ ok
          /\ out' = << [ev |-> "toggleFavorite", id |-> profileId,
                        status |-> currentFavoriteStatus],
                       Alert("not-signed-in:favorite") >>
          /\ UNCHANGED remoteVars
     ELSE LET op == [kind |-> "updateDoc", uid |-> user, id |-> profileId,
                     fields |-> [isFavorite |-> ~currentFavoriteStatus],
                     src |-> "handleToggleFavorite"]
          IN /\ Write(op, ok)
             /\ out' = << [ev |-> "toggleFavorite", id |-> profileId,
                        status |-> currentFavoriteStatus] >> \o
                       Issued(op, ok)
  /\ lastOp' = [op |-> "toggleFavorite",
                ui |-> \E i \in DOMAIN profiles :
                         /\ profiles[i].id = profileId
                         /\ profiles[i].isFavorite = currentFavoriteStatus]
  /\ UNCHANGED << user, unsubscribe, listeners, lastSnapshot, watchVars,
                  sessionVars, formVars, now, ghostVars >>
  /\ UNCHANGED zustandVars

\* What the user types in the form: an edit changes the descriptive data.
FormInputs == IF editingProfile # Null THEN EditNames ELSE NewNames

\* Ids a store operation can be asked about: the rows shown (a row may have
\* been removed remotely meanwhile) and an id that does not exist.
RequestIds == IdsOf(profiles) \cup {MissingId}

\* A history row's favorite button passes the row's own isFavorite.
ShownFavorite(id) ==
  IF \E i \in DOMAIN profiles : profiles[i].id = id
  THEN {profiles[i].isFavorite : i \in {j \in DOMAIN profiles : profiles[j].id = id}}
  ELSE {FALSE}

\* ------------------------------------------------------------------- Next
Identity ==
  \/ \E u \in Users \cup {NoUser} : AuthStateChanged(u, TRUE)
  \/ \E uid \in Users : Snapshot(uid)

Failures ==
  \/ \E u \in Users : AuthStateChanged(u, FALSE)
  \/ \E uid \in Users : SnapshotError(uid)

Templates ==
  \/ OpenNewProfileForm
  \/ CancelProfileForm
  \/ \E pd \in FormInputs, ok \in BOOLEAN : handleSaveProfile(pd, ok)

Session ==
  \/ handleStartRoast
  \/ handlePauseRoast
  \/ \E ok \in BOOLEAN : handleStopRoast(ok)
  \/ \E t \in Inputs : handleAdd(t)

Timers ==
  \/ TimerTick
  \/ ClockAdvance

Library ==
  \/ \E p \in Editable : handleEditProfile(p)
  \/ \E id \in RequestIds, fn \in FlavorTexts, ok \in BOOLEAN :
        handleSaveFlavorNotes(id, fn, ok)
  \/ \E id \in RequestIds, c \in BOOLEAN, ok \in BOOLEAN :
        deleteProfile(id, c, ok)
  \/ \E id \in RequestIds, ok \in BOOLEAN : \E cur \in ShownFavorite(id) :
        handleToggleFavorite(id, cur, ok)

\* The root component is unmounted: the cleanups of the interval effect and
\* of the subscription effect run, and nothing runs after them.
IntervalCleanup == IF liveIntervals > 0 THEN liveIntervals - 1 ELSE 0

Mounted == lastOp.op # "unmount"

Unmount ==
  /\ Mounted
  /\ liveIntervals' = IntervalCleanup
  /\ listeners' = EffectCleanupListeners
  /\ unsubscribe' = "undef"
  /\ out' = EffectCleanupOut
  /\ lastOp' = [op |-> "unmount"]
  /\ UNCHANGED << user, profiles, lastSnapshot, remoteVars, time, isRunning,
                  sessionVars, formVars, now, ghostVars >>
  /\ UNCHANGED zustandVars

\* The roast session in time: the handlers of the roast and profile tabs,
\* the timers, sign-in and sign-out and the remote store, from an empty store.
Next == Identity \/ Templates \/ Session \/ Timers

Spec == Init /\ [][Next]_vars

\* The stopwatch and the temperature log: the session handlers with every
\* text the temperature box can hold, the timers and the unmounting of the
\* component, with nobody signed in.
NextWatch ==
  \/ /\ Mounted
     /\ \/ Templates
        \/ handleStartRoast
        \/ handlePauseRoast
        \/ \E ok \in BOOLEAN : handleStopRoast(ok)
        \/ \E t \in Inputs \cup OverflowInputs : handleAdd(t)
        \/ Timers
  \/ Unmount

SpecWatch == Init /\ [][NextWatch]_vars

\* The profile library: every store operation, sign-in and sign-out and the
\* remote store, from a store that already
\* holds a roast of each user and with a roast in progress (started, one
\* sample logged), which the stop handler commits.
SeedProfile ==
  [id |-> << "uuid", 0 >>, name |-> "Ethiopia", startTime |-> ToTimestamp(0),
   endTime |-> ToTimestamp(0), duration |-> 0,
   temperatureLog |-> << [time |-> 0, temperature |-> 180,
                          timestamp |-> ToTimestamp(0)] >>,
   flavorNotes |-> "", isFavorite |-> FALSE]

RoastInProgress ==
  [id |-> << "uuid", 1 >>, name |-> "Ethiopia", startTime |-> 0,
   endTime |-> Undefined, duration |-> 0, temperatureLog |-> << >>,
   flavorNotes |-> "", isFavorite |-> FALSE]

InitStore ==
  /\ user = NoUser
  /\ profiles = << >>
  /\ unsubscribe = "undef"
  /\ listeners = {}
  /\ lastSnapshot = << >>
  /\ remote = [u \in Users |->
                 << [docId |-> << u, 0 >>, data |-> SeedProfile] >>]
  /\ nextDocId = 1
  /\ time = 0
  /\ isRunning = TRUE
  /\ liveIntervals = 1
  /\ currentProfile = RoastInProgress
  /\ temperatureLog = << [time |-> 0, temperature |-> 180, timestamp |-> 0] >>
  /\ showProfileForm = FALSE
  /\ editingProfile = Null
  /\ uuidCount = 1
  /\ now = 0
  /\ sessionTicks = 0
  /\ sessionStarted = TRUE
  /\ sampleSessions = << [profile |-> RoastInProgress.id, started |-> TRUE] >>
  /\ ZustandInit
  /\ lastOp = [op |-> "init"]
  /\ out = << >>

NextStore ==
  \/ Identity
  \/ Library
  \/ \E ok \in BOOLEAN : handleStopRoast(ok)
  \/ CancelProfileForm
  \/ \E pd \in FormInputs, ok \in BOOLEAN : handleSaveProfile(pd, ok)

SpecStore == InitStore /\ [][NextStore]_vars

\* The subscription feed: sign-in, sign-out and switches of identity, the
\* listener's deliveries and failures, and the writes that change what the
\* remote store delivers, from the same initial state.
NextFeed ==
  \/ Identity
  \/ Failures
  \/ \E ok \in BOOLEAN : handleStopRoast(ok)
  \/ \E id \in RequestIds, c \in BOOLEAN, ok \in BOOLEAN :
        deleteProfile(id, c, ok)
  \/ \E id \in RequestIds, ok \in BOOLEAN : \E cur \in ShownFavorite(id) :
        handleToggleFavorite(id, cur, ok)

SpecFeed == InitStore /\ [][NextFeed]_vars

\* The same with delivery: a live listener whose query result differs from
\* what the application holds gets its snapshot delivered.
SpecFeedFair == SpecFeed /\ \A uid \in Users : WF_vars(Snapshot(uid))

\* Sessions and the records they become: templates, start, pause, samples
\* and stop for one session after the other, and the library operations on
\* what was stored, for one user signing in and out, from an empty store
\* whose first auto-id is 0.  No timer runs.
InitPersist ==
  /\ user = NoUser
  /\ profiles = << >>
  /\ unsubscribe = "undef"
  /\ listeners = {}
  /\ lastSnapshot = << >>
  /\ remote = [u \in Users |-> << >>]
  /\ nextDocId = 0
  /\ time = 0
  /\ isRunning = FALSE
  /\ liveIntervals = 0
  /\ currentProfile = Null
  /\ temperatureLog = << >>
  /\ showProfileForm = FALSE
  /\ editingProfile = Null
  /\ uuidCount = 0
  /\ now = 0
  /\ sessionTicks = 0
  /\ sessionStarted = FALSE
  /\ sampleSessions = << >>
  /\ ZustandInit
  /\ lastOp = [op |-> "init"]
  /\ out = << >>

NextPersist ==
  \/ \E u \in {"A", NoUser} : AuthStateChanged(u, TRUE)
  \/ Snapshot("A")
  \/ Templates
  \/ handleStartRoast
  \/ handlePauseRoast
  \/ \E ok \in BOOLEAN : handleStopRoast(ok)
  \/ handleAdd("180")
  \/ Library

SpecPersist == InitPersist /\ [][NextPersist]_vars

\* ------------------------------------------- useRoastStore (zustand store)
\* set(partial): the store's state with the given fields replaced.
set(partial) == Merge(store, partial)

LogNames == {"Ethiopia", "Kenya"}    \* beanName of a roast log
NoId == << "log", 0 >>               \* the id of a log that has none (falsy)

\* orderBy('date', 'desc'); ties follow the document id, descending.
LogBefore(a, b) ==
  \/ a.data.date > b.data.date
  \/ /\ a.data.date = b.data.date
     /\ a.docId[2] > b.docId[2]

RECURSIVE InsertLog(_, _)
InsertLog(d, s) ==
  IF s = << >> THEN << d >>
  ELSE IF LogBefore(d, Head(s)) THEN << d >> \o s
  ELSE << Head(s) >> \o InsertLog(d, Tail(s))

RECURSIVE OrderByDateDesc(_)
OrderByDateDesc(s) ==
  IF s = << >> THEN << >>
  ELSE InsertLog(Head(s), OrderByDateDesc(Tail(s)))

\* query(logsCollection, where('userId', '==', uid), orderBy('date', 'desc')).
UserLogsQuery(uid) ==
  OrderByDateDesc(SelectSeq(roastLogsCollection,
                            LAMBDA d : d.data.userId = uid))

\* fetchedLogs of the onSnapshot callback: {id: doc.id, ...doc.data()}.
FetchedLogs(snapshot) ==
  MapSeq(snapshot, LAMBDA d : Merge([id |-> d.docId], d.data))

\* Calling the unsubscribe function of listener h.
Unsubscribed(h) == [feeds EXCEPT ![h].calls = @ + 1, ![h].live = FALSE]

\* The teardown both loadRoastLogsFromFirestore and
\* unsubscribeFirestoreListener start with: call the held function, then null.
TeardownFeeds ==
  IF store.currentUnsubscribe # 0
  THEN Unsubscribed(store.currentUnsubscribe) ELSE feeds

\* A teardown that keeps the function it has called.
TeardownStoreKeepsHandle == store

TeardownStore ==
  IF store.currentUnsubscribe # 0
  THEN set([currentUnsubscribe |-> 0]) ELSE store

TeardownOut ==
  IF store.currentUnsubscribe # 0
  THEN << [ev |-> "currentUnsubscribe", feed |-> store.currentUnsubscribe] >>
  ELSE << >>

setUser(u) ==
  /\ store' = set([user |-> u])
  /\ lastOp' = [op |-> "setUser", user |-> u]
  /\ out' = << >>
  /\ UNCHANGED << feeds, roastLogsCollection, nextLogId, appVars >>

\* loadRoastLogsFromFirestore(user); ok = FALSE is onSnapshot throwing, which
\* nothing here catches: the call ends after the teardown.
loadRoastLogsFromFirestore(u, ok) ==
  /\ u = NoUser => ok
  /\ IF u # NoUser
     THEN IF ok
          THEN /\ Len(feeds) < MaxFeeds
               /\ feeds' = Append(TeardownFeeds,
                                  [uid |-> u, live |-> TRUE, calls |-> 0])
               /\ store' = Merge(TeardownStore,
                                 [currentUnsubscribe |-> Len(feeds) + 1])
          ELSE /\ feeds' = TeardownFeeds
               /\ store' = TeardownStore
     ELSE /\ feeds' = TeardownFeeds
          /\ store' = Merge(TeardownStore, [roastLogs |-> << >>])
  /\ lastOp' = [op |-> "loadRoastLogsFromFirestore", user |-> u]
  /\ out' = TeardownOut \o
            (IF u # NoUser
             THEN << [ev |-> "onSnapshot", uid |-> u, ok |-> ok] >>
             ELSE << >>)
  /\ UNCHANGED << roastLogsCollection, nextLogId, appVars >>

unsubscribeFirestoreListener ==
  /\ feeds' = TeardownFeeds
  /\ store' = TeardownStore
  /\ lastOp' = [op |-> "unsubscribeFirestoreListener"]
  /\ out' = TeardownOut
  /\ UNCHANGED << roastLogsCollection, nextLogId, appVars >>

\* The onSnapshot success callback of listener h.
FeedSnapshot(h) ==
  /\ h \in DOMAIN feeds
  /\ feeds[h].live
  /\ store' = set([roastLogs |-> FetchedLogs(UserLogsQuery(feeds[h].uid))])
  /\ lastOp' = [op |-> "feedSnapshot", feed |-> h]
  /\ out' = << >>
  /\ UNCHANGED << feeds, roastLogsCollection, nextLogId, appVars >>

\* The onSnapshot error callback of listener h: it logs, and Firestore ends
\* the listener.
FeedError(h) ==
  /\ h \in DOMAIN feeds
  /\ feeds[h].live
  /\ feeds' = [feeds EXCEPT ![h].live = FALSE]
  /\ lastOp' = [op |-> "feedError", feed |-> h]
  /\ out' = << [ev |-> "console.error"] >>
  /\ UNCHANGED << store, roastLogsCollection, nextLogId, appVars >>

LogIdsOf(s) == {s[i].docId : i \in DOMAIN s}

\* The awaited write to roastLogs settles: accepted (ok) or rejected.
LogWrite(op, ok) ==
  /\ ok /\ op.kind = "updateDoc" => op.id \in LogIdsOf(roastLogsCollection)
  /\ roastLogsCollection' =
       IF ~ok THEN roastLogsCollection
       ELSE IF op.kind = "addDoc"
       THEN Append(roastLogsCollection,
                   [docId |-> << "log", nextLogId >>, data |-> op.data])
       ELSE IF op.kind = "updateDoc"
       THEN [i \in DOMAIN roastLogsCollection |->
               IF roastLogsCollection[i].docId = op.id
               THEN [docId |-> op.id,
                     data |-> Merge(roastLogsCollection[i].data, op.fields)]
               ELSE roastLogsCollection[i]]
       ELSE SelectSeq(roastLogsCollection, LAMBDA d : d.docId # op.id)
  /\ nextLogId' = IF ok /\ op.kind = "addDoc" THEN nextLogId + 1 ELSE nextLogId

LogIssued(op, ok, failure) ==
  << [ev |-> op.kind, op |-> op], [ev |-> "settled", ok |-> ok] >> \o
  (IF ok THEN << >> ELSE << Alert(failure) >>)

addRoastLog(log, ok) ==
  /\ IF store.user = NoUser
     THEN /\ ok
          /\ out' = << [ev |-> "addRoastLog"], Alert("not-signed-in") >>
          /\ UNCHANGED << roastLogsCollection, nextLogId >>
     ELSE LET op == [kind |-> "addDoc", collection |-> "roastLogs",
                     data |-> Merge(log, [userId |-> store.user,
                                          createdAt |-> now]),
                     src |-> "addRoastLog"]
          IN /\ nextLogId <= MaxLogs
             /\ LogWrite(op, ok)
             /\ out' = << [ev |-> "addRoastLog"] >> \o
                       LogIssued(op, ok, "add-failed")
  /\ lastOp' = [op |-> "addRoastLog"]
  /\ UNCHANGED << store, feeds, appVars >>

updateRoastLog(log, ok) ==
  /\ IF store.user = NoUser
     THEN /\ ok
          /\ out' = << [ev |-> "updateRoastLog", id |-> log.id],
                       Alert("not-signed-in") >>
          /\ UNCHANGED << roastLogsCollection, nextLogId >>
     ELSE IF log.id = NoId
     THEN /\ ok
          /\ out' = << [ev |-> "updateRoastLog", id |-> log.id],
                       [ev |-> "console.error"], Alert("update-failed:no-id") >>
          /\ UNCHANGED << roastLogsCollection, nextLogId >>
     ELSE LET op == [kind |-> "updateDoc", collection |-> "roastLogs",
                     id |-> log.id,
                     fields |-> Merge(log, [updatedAt |-> now]),
                     src |-> "updateRoastLog"]
          IN /\ LogWrite(op, ok)
             /\ out' = << [ev |-> "updateRoastLog", id |-> log.id] >> \o
                       LogIssued(op, ok, "update-failed")
  /\ lastOp' = [op |-> "updateRoastLog"]
  /\ UNCHANGED << store, feeds, appVars >>

deleteRoastLog(id, ok) ==
  /\ IF store.user = NoUser
     THEN /\ ok
          /\ out' = << [ev |-> "deleteRoastLog", id |-> id],
                       Alert("not-signed-in") >>
          /\ UNCHANGED << roastLogsCollection, nextLogId >>
     ELSE LET op == [kind |-> "deleteDoc", collection |-> "roastLogs",
                     id |-> id, src |-> "deleteRoastLog"]
          IN /\ LogWrite(op, ok)
             /\ out' = << [ev |-> "deleteRoastLog", id |-> id] >> \o
                       LogIssued(op, ok, "delete-failed")
  /\ lastOp' = [op |-> "deleteRoastLog"]
  /\ UNCHANGED << store, feeds, appVars >>

\* What a caller passes: a new log typed in a form; a log of the list, its
\* bean name edited, or a log without an id; the id of a log of the list.
NewLogs == {[date |-> 0, beanName |-> "Ethiopia"]}

EditedLogs ==
  {[store.roastLogs[i] EXCEPT !.beanName = n] :
     i \in DOMAIN store.roastLogs, n \in LogNames} \cup
  {[id |-> NoId, date |-> 0, beanName |-> "Ethiopia"]}

ListedIds == IdsOf(store.roastLogs) \cup {NoId}

\* The zustand store used through its whole interface, by any caller and in
\* any order, with the remote collection behind it.
NextZustand ==
  \/ \E u \in Users \cup {NoUser} : setUser(u)
  \/ \E u \in Users \cup {NoUser}, ok \in BOOLEAN :
        loadRoastLogsFromFirestore(u, ok)
  \/ unsubscribeFirestoreListener
  \/ \E h \in DOMAIN feeds : FeedSnapshot(h)
  \/ \E h \in DOMAIN feeds : FeedError(h)
  \/ \E log \in NewLogs, ok \in BOOLEAN : addRoastLog(log, ok)
  \/ \E log \in EditedLogs, ok \in BOOLEAN : updateRoastLog(log, ok)
  \/ \E id \in ListedIds, ok \in BOOLEAN : deleteRoastLog(id, ok)

SpecZustand == Init /\ [][NextZustand]_vars

\* The subscriptions of both stores over their lifetime: sign-in, sign-out and
\* switches of identity with the hook's effect and its cleanup, the zustand
\* store's load and teardown calls, and the deliveries and failures of the
\* listeners, from empty remote collections.
NextTeardown ==
  \/ Identity
  \/ Failures
  \/ \E u \in Users \cup {NoUser} : setUser(u)
  \/ \E u \in Users \cup {NoUser}, ok \in BOOLEAN :
        loadRoastLogsFromFirestore(u, ok)
  \/ unsubscribeFirestoreListener
  \/ \E h \in DOMAIN feeds : FeedSnapshot(h)
  \/ \E h \in DOMAIN feeds : FeedError(h)

SpecTeardown == Init /\ [][NextTeardown]_vars

\* ----------------------------------------------------------------- claims
StoreCalls == {"addProfile", "updateProfile", "deleteProfile", "toggleFavorite"}

RemoteCallsIn(s) == {i \in DOMAIN s : s[i].ev \in RemoteCalls}

FailedIn(s) == \E i \in DOMAIN s : s[i].ev = "settled" /\ ~s[i].ok

\* The record p is document d as the application shows it: the document's
\* id and its data, instants read back from the stored Timestamps.
SameRecord(p, d) ==
  /\ p.id = d.docId
  /\ p.name = d.data.name
  /\ p.startTime = d.data.startTime.ts
  /\ p.endTime = d.data.endTime.ts
  /\ p.duration = d.data.duration
  /\ p.flavorNotes = d.data.flavorNotes
  /\ p.isFavorite = d.data.isFavorite
  /\ Len(p.temperatureLog) = Len(d.data.temperatureLog)
  /\ \A k \in DOMAIN p.temperatureLog :
       /\ p.temperatureLog[k].time = d.data.temperatureLog[k].time
       /\ p.temperatureLog[k].temperature = d.data.temperatureLog[k].temperature
       /\ p.temperatureLog[k].timestamp = d.data.temperatureLog[k].timestamp.ts

SameRecords(ps, docs) ==
  /\ Len(ps) = Len(docs)
  /\ \A i \in DOMAIN ps : SameRecord(ps[i], docs[i])

\* C1: a stop with a template and at least one sample makes exactly one
\* create call; its duration is the stopwatch's elapsed value at the stop and
\* its temperatureLog is the accumulated sequence of samples, in order.
C1_StopCommitsSession ==
  [][ (lastOp'.op = "stop" /\ currentProfile # Null /\ Len(temperatureLog) > 0)
        => /\ Count(out', "addProfile") = 1
           /\ \A c \in Calls(out', "addProfile") :
                /\ c.profile.duration = time
                /\ c.profile.temperatureLog = temperatureLog ]_vars

\* A stop pressed in the running view that committed one second and two
\* samples, and sent them to the remote store.
C1_Witness ==
  /\ lastOp.op = "stop" /\ lastOp.ui
  /\ Count(out, "addProfile") = 1
  /\ Count(out, "addDoc") = 1
  /\ \E c \in Calls(out, "addProfile") :
       c.profile.duration = 1 /\ Len(c.profile.temperatureLog) = 2

\* C2: a session's data is in exactly one place: staged locally until the
\* stop, in the remote collection after it.  After a stop that discards the
\* staged session its record is in the remote store, and a staged session is
\* never in the remote store as well.
C2_ExactlyOnePlace ==
  \A n \in 1..uuidCount :
    LET id == << "uuid", n >>
        staged == currentProfile # Null /\ currentProfile.id = id
        stored == \E u \in Users : \E i \in DOMAIN remote[u] :
                    remote[u][i].data.id = id
        discarded == /\ lastOp.op = "stop" /\ lastOp.ui
                     /\ \E c \in Calls(out, "addProfile") : c.profile.id = id
    IN /\ ~(staged /\ stored)
       /\ discarded => stored

\* A stop pressed while signed out: the staged session is gone and the remote
\* store holds nothing.
C2_SessionLost ==
  /\ lastOp.op = "stop" /\ lastOp.ui
  /\ user = NoUser
  /\ Count(out, "addProfile") = 1
  /\ currentProfile = Null /\ temperatureLog = << >>
  /\ \A u \in Users : remote[u] = << >>

\* C3: at most one subscription is live; a change of identity from A to B
\* does one unsubscribe, of A's feed, and then one subscribe, to B's feed;
\* the collection never holds records of two identities.
C3_SingleSubscription ==
  [][ /\ Cardinality(listeners') <= 1
      /\ Count(out', "unsubscribe") <= 1
      /\ Count(out', "subscribe") <= 1
      /\ (/\ lastOp'.op = "authStateChanged"
          /\ user \in Users /\ user' \in Users
          /\ unsubscribe = user)
           => /\ Len(out') = 2
              /\ out'[1] = [ev |-> "unsubscribe", uid |-> user]
              /\ out'[2].ev = "subscribe" /\ out'[2].uid = user'
      /\ \A i, j \in DOMAIN profiles' : profiles'[i].id[1] = profiles'[j].id[1]
    ]_vars

\* A switched to B while A's two records were shown: A's feed was closed and
\* B's is the only live one.
C3_Witness ==
  /\ lastOp.op = "authStateChanged"
  /\ lastOp.from = "A" /\ lastOp.to = "B"
  /\ Len(out) = 2
  /\ out[1] = [ev |-> "unsubscribe", uid |-> "A"]
  /\ out[2] = [ev |-> "subscribe", uid |-> "B", ok |-> TRUE]
  /\ listeners = {"B"}
  /\ Len(profiles) = 2

\* C4: after a snapshot delivery the collection is exactly the records of
\* that snapshot, in its order; at all times the collection is empty or is
\* the latest snapshot delivered.
C4_CollectionIsLatestSnapshot ==
  /\ profiles = << >> \/ SameRecords(profiles, lastSnapshot)
  /\ lastOp.op = "snapshot"
       => /\ lastSnapshot = QuerySnapshot(lastOp.uid)
          /\ SameRecords(profiles, lastSnapshot)

\* A snapshot that replaced a collection showing the seeded roast by one
\* that holds only the roast committed since (the seeded one was deleted).
C4_Witness ==
  /\ lastOp.op = "snapshot"
  /\ Len(profiles) = 1
  /\ profiles[1].id = << lastOp.uid, 1 >>
  /\ Len(profiles[1].temperatureLog) = 1

\* C5: create, update, delete and toggleFavorite leave the in-memory
\* collection alone, accepted or rejected: it changes only in the
\* subscription callback and when it is cleared on sign-out.
C5_OnlySubscriptionChangesCollection ==
  [][ /\ profiles' # profiles
         => \/ lastOp'.op = "snapshot"
            \/ lastOp'.op = "authStateChanged" /\ user' = NoUser
      /\ (\E i \in DOMAIN out' : out'[i].ev \in StoreCalls)
         => profiles' = profiles ]_vars

\* An accepted favorite toggle: the remote document is a favorite, the row
\* shown is not yet.
C5_Witness ==
  /\ lastOp.op = "toggleFavorite" /\ lastOp.ui
  /\ Len(out) >= 3 /\ out[3] = [ev |-> "settled", ok |-> TRUE]
  /\ \E i \in DOMAIN profiles :
       /\ profiles[i].id = out[1].id
       /\ ~profiles[i].isFavorite
       /\ \E k \in DOMAIN remote[user] :
            /\ remote[user][k].docId = out[1].id
            /\ remote[user][k].data.isFavorite

\* C6: with no identity, create, update, delete and toggleFavorite show a
\* notice and stop: no remote call, and no change to the store, the remote
\* collection or the subscription; the handlers that only call them change
\* nothing at all.
C6_NoIdentityAborts ==
  [][ (user = NoUser /\ \E i \in DOMAIN out' : out'[i].ev \in StoreCalls)
        => /\ Len(out') = 2
           /\ out'[1].ev \in StoreCalls
           /\ out'[2].ev = "alert"
           /\ out'[2].msg \in {"not-signed-in:save", "not-signed-in:update",
                               "not-signed-in:delete", "not-signed-in:favorite"}
           /\ RemoteCallsIn(out') = {}
           /\ UNCHANGED << user, storeVars, remoteVars >>
           /\ lastOp'.op \in {"saveFlavorNotes", "delete", "toggleFavorite"}
                => UNCHANGED << watchVars, sessionVars, formVars >> ]_vars

\* A stop pressed while signed out: the create call ended in the notice.
C6_Witness ==
  /\ lastOp.op = "stop"
  /\ user = NoUser
  /\ Len(out) = 2
  /\ out[1].ev = "addProfile"
  /\ out[2] = Alert("not-signed-in:save")
  /\ \A u \in Users : Len(remote[u]) = 1

\* C7: a rejected insert, patch or remove is caught and shown as one notice;
\* an invocation makes at most one remote call; the collection and the
\* remote store are as before.
C7_FailureSurfacedOnce ==
  [][ /\ Cardinality(RemoteCallsIn(out')) <= 1
      /\ FailedIn(out')
           => /\ Count(out', "alert") = 1
              /\ \A a \in Calls(out', "alert") :
                   a.msg \in {"save-failed", "update-failed",
                              "delete-failed", "favorite-failed"}
              /\ profiles' = profiles
              /\ remote' = remote ]_vars

\* A rejected delete of an id the remote store does not hold.
C7_Witness ==
  /\ lastOp.op = "delete"
  /\ Len(out) = 5
  /\ out[3].ev = "deleteDoc" /\ out[3].op.id = MissingId
  /\ out[4] = [ev |-> "settled", ok |-> FALSE]
  /\ out[5] = Alert("delete-failed")
  /\ profiles # << >>

\* C8: a stop with an empty temperature log does nothing and says nothing:
\* no create call, and the collection, the remote store, the active session,
\* the stopwatch value and the running flag are unchanged.
C8_StopWithoutSamples ==
  [][ (lastOp'.op = "stop" /\ Len(temperatureLog) = 0)
        => /\ out' = << >>
           /\ UNCHANGED << profiles, remote, currentProfile, temperatureLog,
                           time, isRunning >> ]_vars

\* A stop pressed in a running session of one second with no sample: the
\* session is still there.
C8_Witness ==
  /\ lastOp.op = "stop" /\ lastOp.ui
  /\ out = << >>
  /\ currentProfile # Null
  /\ temperatureLog = << >>
  /\ isRunning /\ time = 1

\* C9: a committed profile's duration is the number of ticks of the
\* stopwatch while it ran for that session; no tick of an earlier session or
\* template is in it.
C9_DurationIsSessionTicks ==
  [][ (lastOp'.op = "stop" /\ lastOp'.ui /\ sessionStarted)
        => \A c \in Calls(out', "addProfile") :
             c.profile.duration = sessionTicks ]_vars

\* C10: a start with a template present and the stopwatch not running, for a
\* template that has not run yet, empties the temperature log, puts the
\* elapsed value at 0 and sets startTime to the current instant.
C10_StartResets ==
  [][ (/\ lastOp'.op = "start"
       /\ ~isRunning /\ currentProfile # Null
       /\ ~sessionStarted /\ sessionTicks = 0)
        => /\ temperatureLog' = << >>
           /\ time' = 0
           /\ currentProfile'.startTime = now ]_vars

\* C11: the elapsed value decreases only through reset, increases only by a
\* tick while the stopwatch is running, and reset leaves it at 0 with the
\* stopwatch not running, whatever the state before.
C11_ElapsedMonotone ==
  [][ /\ time' < time
         => lastOp'.op = "stop" /\ Count(out', "addProfile") = 1
      /\ time' > time
         => /\ lastOp'.op = "tick"
            /\ isRunning /\ liveIntervals > 0
            /\ time' = time + 1
      /\ (lastOp'.op = "stop" /\ currentProfile # Null
          /\ Len(temperatureLog) > 0)
         => time' = 0 /\ ~isRunning' ]_vars

\* A stop from the running view after one second: reset put the stopwatch
\* at 0, not running.
C11_Witness ==
  /\ lastOp.op = "stop" /\ lastOp.ui
  /\ time = 0 /\ ~isRunning /\ liveIntervals = 0
  /\ \E c \in Calls(out, "addProfile") : c.profile.duration = 1

\* C12: at most one tick timer is live, one exactly while the mounted
\* stopwatch is running; none after pause, after reset and after the
\* component is unmounted.
C12_SingleTimer ==
  /\ liveIntervals <= 1
  /\ liveIntervals = (IF isRunning /\ Mounted THEN 1 ELSE 0)
  /\ lastOp.op \in {"pause", "unmount"} => liveIntervals = 0
  /\ (lastOp.op = "stop" /\ out # << >>) => liveIntervals = 0
  /\ (lastOp.op = "start" /\ isRunning) => liveIntervals = 1

\* The component was unmounted while the stopwatch was running, after one
\* second: the timer is gone.
C12_Witness ==
  /\ lastOp.op = "unmount"
  /\ isRunning /\ time = 1
  /\ liveIntervals = 0

\* C13: pause only clears the running flag (and with it the timer): the
\* elapsed value, the active session with its startTime, the temperature log
\* and everything else stay, and a session that is there can be started again.
C13_PauseFrame ==
  [][ lastOp'.op = "pause"
        => /\ ~isRunning'
           /\ out' = << >>
           /\ UNCHANGED << time, currentProfile, temperatureLog, user,
                           storeVars, remoteVars, formVars, now >>
           /\ currentProfile # Null => StartPermitted' ]_vars

\* A running session of one second with one sample was paused.
C13_Witness ==
  /\ lastOp.op = "pause" /\ lastOp.ui
  /\ ~isRunning /\ time = 1
  /\ currentProfile # Null
  /\ Len(temperatureLog) = 1

\* C14: a start with no template, or while the stopwatch is running, does
\* nothing and says nothing: session (with its startTime), temperature log,
\* elapsed value and running flag are unchanged.
C14_StartNoOp ==
  [][ (lastOp'.op = "start" /\ (currentProfile = Null \/ isRunning))
        => /\ out' = << >>
           /\ UNCHANGED << currentProfile, temperatureLog, time, isRunning,
                           liveIntervals >> ]_vars

\* A start request while running, after one second and one sample: the
\* sample is still in the log.
C14_Witness ==
  /\ lastOp.op = "start" /\ ~lastOp.ui
  /\ isRunning /\ time = 1
  /\ Len(temperatureLog) = 1

\* C15: an append of a point whose temperature is a finite number puts it at
\* the end of the temperature log and keeps what is there; any other append
\* is rejected and leaves the log as it is.
C15_AppendValidates ==
  [][ lastOp'.op = "add"
        => LET text == lastOp'.input
               finite == /\ text # ""
                         /\ ~isNaN(text)
                         /\ NumberOf(text) # Infinity
           IN temperatureLog' =
                IF finite
                THEN Append(temperatureLog,
                            [time |-> time, temperature |-> NumberOf(text),
                             timestamp |-> now])
                ELSE temperatureLog ]_vars

\* C16: when the identity becomes absent the previous subscription, if there
\* is one, is cancelled and no subscription is opened; while no identity is
\* present the collection is empty and no listener is live.
C16_AbsentIdentityClears ==
  [][ /\ (lastOp'.op = "authStateChanged" /\ user' = NoUser)
         => out' = IF unsubscribe # "undef"
                   THEN << [ev |-> "unsubscribe", uid |-> unsubscribe] >>
                   ELSE << >>
      /\ user' = NoUser
         => profiles' = << >> /\ listeners' = {} /\ unsubscribe' = "undef"
    ]_vars

\* A signed out while records were shown: A's feed was cancelled and the
\* collection is empty.
C16_Witness ==
  /\ lastOp.op = "authStateChanged"
  /\ lastOp.from = "A" /\ lastOp.to = NoUser
  /\ out = << [ev |-> "unsubscribe", uid |-> "A"] >>
  /\ lastSnapshot # << >>
  /\ profiles = << >> /\ listeners = {}

\* C17: after every identity transition, and from then on, exactly one
\* subscription is live while an identity is present and none otherwise,
\* also after a listener set-up that failed and after an error of the feed.
C17_OneSubscriptionPerIdentity ==
  Cardinality(listeners) = (IF user \in Users THEN 1 ELSE 0)

\* The feed of the signed-in identity reported an error: no subscription is
\* live although the identity is present.
C17_FeedDead ==
  /\ lastOp.op = "snapshotError"
  /\ user \in Users
  /\ listeners = {}

\* The remote store holds a record of the session with this id.
StoredSession(id) ==
  \E u \in Users : \E i \in DOMAIN remote[u] : remote[u][i].data.id = id

\* C18: a session is inserted at most once, by the stop that discards it:
\* an insert is made only by a stop, for the staged session, which is not in
\* the remote store and is staged no longer afterwards; a staged session is
\* never in the remote store; start, pause, edits, flavor notes and favorite
\* toggles insert nothing, and the edit of a record patches that record.
C18_PersistedOnce ==
  [][ /\ Calls(out', "addDoc") # {}
         => /\ lastOp'.op = "stop"
            /\ Count(out', "addDoc") = 1
            /\ currentProfile # Null
            /\ ~StoredSession(currentProfile.id)
            /\ \A c \in Calls(out', "addDoc") :
                 c.op.data.id = currentProfile.id
            /\ currentProfile' = Null
      /\ currentProfile' # Null => ~StoredSession(currentProfile.id)'
      /\ lastOp'.op \in {"start", "pause", "add", "edit", "saveProfile",
                         "saveFlavorNotes", "toggleFavorite", "delete"}
         => Calls(out', "addDoc") = {}
      /\ (lastOp'.op = "saveProfile" /\ editingProfile # Null
          /\ user # NoUser)
         => /\ Count(out', "updateDoc") = 1
            /\ \A c \in Calls(out', "updateDoc") :
                 c.op.id = editingProfile.id /\ c.op.uid = user ]_vars

\* The second session was stopped and inserted: the remote store holds the
\* two sessions, one record each.
C18_Witness ==
  /\ lastOp.op = "stop"
  /\ Count(out, "addDoc") = 1
  /\ user = "A" /\ Len(remote["A"]) = 2
  /\ remote["A"][1].data.id = << "uuid", 1 >>
  /\ remote["A"][2].data.id = << "uuid", 2 >>

\* The remote collection of u holds the n-th document inserted there.
StoredDoc(u, n) ==
  \E k \in DOMAIN remote[u] : remote[u][k].docId = << u, n >>

C20_ToggleFavorite ==
  [][ /\ (lastOp'.op = "toggleFavorite" /\ user # NoUser)
         => /\ Count(out', "updateDoc") = 1
            /\ \A c \in Calls(out', "updateDoc") :
                 /\ c.op.uid = user
                 /\ c.op.id = out'[1].id
                 /\ c.op.fields = [isFavorite |-> ~out'[1].status]
      /\ (/\ lastOp.op = "toggleFavorite"
          /\ \E i \in DOMAIN out : out[i] = [ev |-> "settled", ok |-> TRUE]
          /\ lastOp'.op = "snapshot")
         => \E i \in DOMAIN profiles' :
              /\ profiles'[i].id = out[1].id
              /\ profiles'[i].isFavorite = ~out[1].status ]_vars

\* The second toggle of a row: it was shown as a favorite, and the accepted
\* patch made the document not a favorite again.
C20_Witness ==
  /\ lastOp.op = "toggleFavorite" /\ lastOp.ui
  /\ out[1].status = TRUE
  /\ \E i \in DOMAIN out : out[i] = [ev |-> "settled", ok |-> TRUE]
  /\ \E k \in DOMAIN remote[user] :
       /\ remote[user][k].docId = out[1].id
       /\ ~remote[user][k].data.isFavorite

\* C21: a remote remove is issued only in a step in which a confirmation was
\* asked and accepted before it; a step whose confirmation is declined
\* issues no remote call and changes neither the collections held nor the
\* remote ones.
C21_DeleteAfterConfirmation ==
  [][ /\ \A i \in DOMAIN out' :
           out'[i].ev = "deleteDoc" =>
             \E j \in 1..(i - 1) : out'[j].ev = "confirm" /\ out'[j].answer
      /\ (\E i \in DOMAIN out' : out'[i].ev = "confirm" /\ ~out'[i].answer) =>
           /\ RemoteCallsIn(out') = {}
           /\ UNCHANGED << remote, profiles, roastLogsCollection, store >>
    ]_vars

\* deleteRoastLog has removed a stored log and no confirmation was asked.
C21_RemovedUnasked ==
  /\ lastOp.op = "deleteRoastLog"
  /\ Count(out, "deleteDoc") = 1
  /\ Count(out, "confirm") = 0
  /\ ~FailedIn(out)
  /\ nextLogId > 1
  /\ roastLogsCollection = << >>

\* The identity that owns what a patch or remove addresses: the record space
\* named by the path, or, in the flat collection, the userId of the record.
TargetOwners(op) ==
  IF "uid" \in DOMAIN op THEN {op.uid}
  ELSE {roastLogsCollection[i].data.userId :
          i \in {j \in DOMAIN roastLogsCollection :
                   roastLogsCollection[j].docId = op.id}}

\* C22: every patch and remove issued addresses records of the identity that
\* is current when the operation is invoked, and the records of every other
\* identity are the same after the step as before it.
C22_OwnRecordsOnly ==
  [][ /\ \A c \in Calls(out', "updateDoc") \cup Calls(out', "deleteDoc") :
           TargetOwners(c.op) \subseteq
             {IF "uid" \in DOMAIN c.op THEN user ELSE store.user}
      /\ \A c \in Calls(out', "updateDoc") \cup Calls(out', "deleteDoc") :
           /\ "uid" \in DOMAIN c.op =>
                \A u \in Users \ {user} : remote'[u] = remote[u]
           /\ "uid" \notin DOMAIN c.op =>
                \A i \in DOMAIN roastLogsCollection :
                  roastLogsCollection[i].data.userId # store.user =>
                    \E j \in DOMAIN roastLogsCollection' :
                      roastLogsCollection'[j] = roastLogsCollection[i]
    ]_vars

\* With B the current identity, deleteRoastLog has removed a log of A that the
\* list still showed.
C22_RemovedOthersRecord ==
  /\ lastOp.op = "deleteRoastLog"
  /\ store.user = "B"
  /\ ~FailedIn(out)
  /\ \E c \in Calls(out, "deleteDoc") :
       /\ c.op.id \notin LogIdsOf(roastLogsCollection)
       /\ \E i \in DOMAIN store.roastLogs :
            /\ store.roastLogs[i].id = c.op.id
            /\ store.roastLogs[i].userId = "A"

IsPrefix(s, t) == Len(s) <= Len(t) /\ SubSeq(t, 1, Len(s)) = s

\* C23: once the current profile has been started, every step other than a
\* stop leaves the samples already recorded in place and in order: the log
\* after the step begins with the log before it.
C23_LogAppendOnly ==
  [][ sessionStarted /\ lastOp'.op # "stop" =>
        IsPrefix(temperatureLog, temperatureLog') ]_vars

\* C24: in every profile handed to the store by a stop, the samples' time
\* values never decrease along the log and each lies between 0 and the
\* profile's duration.
C24_SampleTimesOrdered ==
  \A c \in Calls(out, "addProfile") :
    LET log == c.profile.temperatureLog
    IN /\ \A i \in DOMAIN log :
            0 <= log[i].time /\ log[i].time <= c.profile.duration
       /\ \A i, j \in DOMAIN log : i < j => log[i].time <= log[j].time

\* A session with samples at two different elapsed times was stored.
C24_Witness ==
  /\ lastOp.op = "stop"
  /\ user # NoUser
  /\ ~FailedIn(out)
  /\ Count(out, "addDoc") = 1
  /\ \E c \in Calls(out, "addProfile") :
       /\ Len(c.profile.temperatureLog) = 2
       /\ c.profile.temperatureLog[1].time < c.profile.temperatureLog[2].time
       /\ c.profile.temperatureLog[2].time = c.profile.duration

\* C25: a teardown with no subscription held (the first, or one directly
\* after another) calls nothing and changes nothing; a subscription's
\* unsubscribe function has been called exactly once as soon as it is no
\* longer the one held, and never while it is held.  For the hook the cleanup
\* calls the function of the subscription it replaces exactly once and no
\* function when there is none.
C25_TeardownIdempotent ==
  [][ /\ (store.currentUnsubscribe = 0 /\
          lastOp'.op = "unsubscribeFirestoreListener") =>
           out' = << >> /\ UNCHANGED << store, feeds >>
      /\ \A h \in DOMAIN feeds' :
           feeds'[h].calls = IF store'.currentUnsubscribe = h THEN 0 ELSE 1
      /\ unsubscribe = "undef" => Count(out', "unsubscribe") = 0
      /\ unsubscribe # "undef" =>
           IF unsubscribe' # unsubscribe \/ user' # user
           THEN /\ Count(out', "unsubscribe") = 1
                /\ \A c \in Calls(out', "unsubscribe") : c.uid = unsubscribe
                /\ unsubscribe' # unsubscribe
           ELSE Count(out', "unsubscribe") = 0
    ]_vars

\* Two listeners of the zustand store were torn down, the second teardown
\* call was followed by one more, which did nothing, and the hook holds a
\* subscription that replaced an earlier one.
C25_Witness ==
  /\ lastOp.op = "unsubscribeFirestoreListener"
  /\ out = << >>
  /\ store.currentUnsubscribe = 0
  /\ Len(feeds) = 2
  /\ \A h \in DOMAIN feeds : feeds[h].calls = 1
  /\ unsubscribe = "B"
  /\ listeners = {"B"}

\* C26: whenever an identity is present and the collection held is not
\* empty, every record of the collection belongs to that identity; so after
\* a switch from A to B the collection does not show A's records under B.
C26_CollectionOfCurrentIdentity ==
  /\ user # NoUser =>
       \A i \in DOMAIN profiles : profiles[i].id[1] = user
  /\ store.user # NoUser =>
       \A i \in DOMAIN store.roastLogs :
         store.roastLogs[i].userId = store.user

\* Directly after the switch from A to B the collection still holds A's
\* records, and B is the current identity.
C26_StaleRecords ==
  /\ lastOp = [op |-> "authStateChanged", from |-> "A", to |-> "B"]
  /\ user = "B"
  /\ profiles # << >>
  /\ \A i \in DOMAIN profiles : profiles[i].id[1] = "A"

\* C27: every sample of a profile that a stop pressed on the rendered stop
\* button hands to the remote store was appended while that same profile was
\* current and already started.
C27_OnlyOwnSamples ==
  [][ lastOp'.op = "stop" /\ lastOp'.ui =>
        \A c \in Calls(out', "addDoc") :
          /\ Len(c.op.data.temperatureLog) = Len(sampleSessions)
          /\ \A i \in DOMAIN sampleSessions :
               sampleSessions[i] = [profile |-> c.op.data.id, started |-> TRUE]
    ]_vars

\* C28: no remote patch is issued for a locally generated id (the uuid of a
\* template that was never stored): every updateDoc addresses an id that is
\* not a template's own.
C28_PatchOnlyStoredIds ==
  [][ \A c \in Calls(out', "updateDoc") : c.op.id[1] # "uuid" ]_vars

\* The edit form of the active session was saved: a patch went out under the
\* session's local id, the remote store rejected it and the failure notice
\* was shown.
C28_LocalIdPatched ==
  /\ lastOp = [op |-> "saveProfile", isEditing |-> TRUE]
  /\ currentProfile # Null
  /\ \E c \in Calls(out, "updateDoc") : c.op.id = currentProfile.id
  /\ FailedIn(out)
  /\ Alert("update-failed") \in {out[i] : i \in DOMAIN out}

\* C29: a stop makes a create call only for a profile that has been started:
\* with no current profile, or with one that was never started, a stop hands
\* nothing to the remote store, whatever the temperature log holds.
C29_CommitOnlyFromRunning ==
  [][ lastOp'.op = "stop" /\ (currentProfile = Null \/ ~sessionStarted) =>
        Calls(out', "addDoc") = {} ]_vars

\* C30: whenever the zustand store holds a live subscription, the identity
\* its query is scoped to is the store's user, so what addRoastLog writes
\* under user.uid is what that subscription delivers.
C30_SubscriptionFollowsUser ==
  \A h \in DOMAIN feeds :
    store.currentUnsubscribe = h /\ feeds[h].live => feeds[h].uid = store.user

\* addRoastLog has stored a log tagged with B while the store's live
\* subscription is scoped to A, whose query does not return it.
C30_WrittenUnseen ==
  /\ lastOp.op = "addRoastLog"
  /\ ~FailedIn(out)
  /\ store.user = "B"
  /\ store.currentUnsubscribe # 0
  /\ feeds[store.currentUnsubscribe] = [uid |-> "A", live |-> TRUE, calls |-> 0]
  /\ \E c \in Calls(out, "addDoc") :
       /\ c.op.data.userId = "B"
       /\ \E i \in DOMAIN roastLogsCollection :
            roastLogsCollection[i].data = c.op.data
       /\ \A i \in DOMAIN UserLogsQuery("A") :
            UserLogsQuery("A")[i].data # c.op.data

====
